---- MODULE Spec2Model ----
(***************************************************************************)
(* Model of crypto_tracker.py: the polling loop of main with its exception *)
(* handlers and the browser session it owns, the CSV sink save_to_csv, the *)
(* gainers/losers views, and the text normaliser parse_money.              *)
(*                                                                         *)
(* Four specifications share the module:                                   *)
(*   Spec       - main(args): build_driver, the while-loop, the handlers   *)
(*   SpecCsv    - arbitrary sequences of save_to_csv calls on one path     *)
(*   SpecFilter - filter_top_gainers / filter_top_losers on a snapshot     *)
(*   SpecMoney  - parse_money on every short string over an alphabet       *)
(***************************************************************************)
EXTENDS Integers, Sequences, FiniteSets, TLC

VARIABLES
    pc,        \* position of main (Spec) or of the driver of a pure call
    driver,    \* main's local variable `driver`: None or the handle
    browser,   \* the Chrome process: "absent", "running" or "quit"
    quits,     \* number of driver.quit() calls made so far
    exc,       \* exception in flight (None when none); at "done": what left main
    last,      \* where and what the most recent raise was
    file,      \* the output path: [exists, lines]
    records,   \* the value returned by the last scrape_top_n / batch passed in
    log,       \* what has been printed, as a sequence of tags
    cycle,     \* number of extraction attempts started
    clock,     \* datetime.now(), advanced by the sleep
    args,      \* the parsed command line
    calls,     \* SpecCsv: the batches passed to save_to_csv, in call order
    external,  \* SpecCsv: TRUE once another process touched the path
    df,        \* SpecFilter: the snapshot
    top_k,     \* SpecFilter: the k passed in
    view,      \* SpecFilter: [kind, rows] of the last view computed
    text,      \* SpecMoney: the input string, a sequence of characters
    result     \* SpecMoney: what parse_money did with it

vars == <<pc, driver, browser, quits, exc, last, file, records, log, cycle,
          clock, args, calls, external, df, top_k, view, text, result>>

\* The variables main never touches.
notMain == <<calls, external, df, top_k, view, text, result>>

None == "None"

-----------------------------------------------------------------------------
(* Bounds of the model *)

MaxCycles == 2
MaxRows == 2
MaxCalls == 3
MaxSnap == 3
MaxK == 4
MaxLen == 4

-----------------------------------------------------------------------------
(* Exception classes and the except clauses of main *)

\* Python / selenium class hierarchy of the exceptions that can reach main.
Parent(cls) ==
    CASE cls = "TimeoutException"    -> "WebDriverException"
      [] cls = "WebDriverException"  -> "Exception"
      [] cls = "OSError"             -> "Exception"
      [] cls = "ValueError"          -> "Exception"
      [] cls = "TypeError"           -> "Exception"
      [] cls = "Exception"           -> "BaseException"
      [] cls = "KeyboardInterrupt"   -> "BaseException"
      [] OTHER                       -> "BaseException"

RECURSIVE IsSubclass(_, _)
IsSubclass(cls, base) ==
    IF cls = base THEN TRUE
    ELSE IF cls = "BaseException" THEN FALSE
    ELSE IsSubclass(Parent(cls), base)

\* a cycle handler that names the selenium errors only
CycleHandlerNarrow == "WebDriverException"

\* `except Exception as e:` of the cycle body
CycleHandlerClass == "Exception"

\* a sleep handler written as `except Exception:`
SleepHandlerBroad == "Exception"

\* `except KeyboardInterrupt:` around time.sleep
SleepHandlerClass == "KeyboardInterrupt"

\* an outer handler that names the timeout only
OuterHandlerNarrow == "TimeoutException"

\* `except WebDriverException as e:` around the whole of main's try
OuterHandlerClass == "WebDriverException"

\* Where control goes when `kind` is raised at position `at` of main:
\* the innermost enclosing handler that matches, else the finally block
\* with the exception still in flight.
HandlerPc(at, kind) ==
    IF at \in {"scrape", "save", "views"} /\ IsSubclass(kind, CycleHandlerClass)
        THEN "except_cycle"
    ELSE IF at = "sleep" /\ IsSubclass(kind, SleepHandlerClass)
        THEN "except_sleep"
    ELSE IF IsSubclass(kind, OuterHandlerClass)
        THEN "except_outer"
    ELSE "finally"

\* The raise itself: the exception is in flight and control is transferred.
Raise(at, kind) ==
    /\ exc' = kind
    /\ last' = [at |-> at, kind |-> kind]
    /\ pc' = HandlerPc(at, kind)

-----------------------------------------------------------------------------
(* The table the page shows and scrape_top_n's loop over its rows *)

\* A row is "ok" (eight or more cells), "short" (fewer cells) or "stale"
\* (reading a cell raises inside the per-row try).
MinCols == 8
RowKinds == {"ok", "short", "stale"}

ColsOf(kind) == IF kind = "short" THEN MinCols - 1 ELSE MinCols

SeqsUpTo(S, n) == UNION {[1..m -> S] : m \in 0..n}

Pages == {p \in SeqsUpTo(RowKinds, MaxRows) : Len(p) >= 1}

Min(a, b) == IF a <= b THEN a ELSE b

RECURSIVE RowRecords(_, _, _)
RowRecords(rows, i, n) ==
    IF i > Min(n, Len(rows)) THEN <<>>
    ELSE IF ColsOf(rows[i]) < MinCols THEN RowRecords(rows, i + 1, n)
    ELSE IF rows[i] = "stale" THEN RowRecords(rows, i + 1, n)
    ELSE <<[rank |-> i]>> \o RowRecords(rows, i + 1, n)

RECURSIVE RowWarnings(_, _, _)
RowWarnings(rows, i, n) ==
    IF i > Min(n, Len(rows)) THEN <<>>
    ELSE IF ColsOf(rows[i]) >= MinCols /\ rows[i] = "stale"
        THEN <<"row_failed">> \o RowWarnings(rows, i + 1, n)
    ELSE RowWarnings(rows, i + 1, n)

-----------------------------------------------------------------------------
(* save_to_csv *)

\* A line of the file: the header line, or one record's row with the
\* timestamp its batch was given.
Header == [kind |-> "header"]

CsvRows(recs, now) ==
    [i \in 1..Len(recs) |-> [kind |-> "row", rank |-> recs[i].rank, timestamp_utc |-> now]]

\* save_to_csv with header=True at every call
save_to_csv_always_header(recs, f, now) ==
    IF recs = <<>> THEN f
    ELSE [exists |-> TRUE, lines |-> f.lines \o <<Header>> \o CsvRows(recs, now)]

\* The file after save_to_csv(recs, path) when it was f and the time is now.
save_to_csv(recs, f, now) ==
    IF recs = <<>> THEN f
    ELSE LET header == ~f.exists
         IN [exists |-> TRUE,
             lines  |-> f.lines \o (IF header THEN <<Header>> ELSE <<>>)
                                \o CsvRows(recs, now)]

NoFile == [exists |-> FALSE, lines |-> <<>>]

-----------------------------------------------------------------------------
(* main(args) *)

DefaultTopN == 10
DefaultTopK == 5

\* An optional float of the command line: <<>> when the flag is absent,
\* <<x>> when it was given as x.
Unset == <<>>

\* Python truthiness of an optional float: None and 0.0 are false.
Truthy(opt) == opt # Unset /\ opt[1] # 0

\* The command lines considered.
Args == [topn         : {1, DefaultTopN},
         show_gainers : {0, DefaultTopK},
         show_losers  : {DefaultTopK},
         min_price    : {Unset},
         max_price    : {Unset, <<100>>}]

\* build_driver's steps that can fail, and whether Chrome is already running
\* when they do: ChromeDriverManager().install() and webdriver.Chrome(...)
\* fail before a browser exists; driver.get(...) fails after it was created,
\* while the handle is still a local of build_driver.
BuildFailures ==
    {[step |-> "install", kind |-> "Exception"],
     [step |-> "install", kind |-> "KeyboardInterrupt"],
     [step |-> "chrome",  kind |-> "WebDriverException"],
     [step |-> "get",     kind |-> "WebDriverException"],
     [step |-> "get",     kind |-> "KeyboardInterrupt"]}

\* driver = build_driver(...) returns; print "Browser ready"
BuildDriverOk ==
    /\ pc = "start"
    /\ driver' = "driver"
    /\ browser' = "running"
    /\ log' = Append(log, "browser_ready")
    /\ pc' = "scrape"
    /\ UNCHANGED <<quits, exc, last, file, records, cycle, clock, args, notMain>>

\* build_driver raises: the assignment to `driver` never happens
BuildDriverFails ==
    /\ pc = "start"
    /\ \E f \in BuildFailures :
        /\ browser' = IF f.step = "get" THEN "running" ELSE "absent"
        /\ Raise("build", f.kind)
    /\ UNCHANGED <<driver, quits, file, records, log, cycle, clock, args, notMain>>

\* main without the `if not records:` test
CycleBranchAlwaysSave(recs) == "save"

\* `if not records:` of main, after scrape_top_n returned
CycleBranch(recs) == IF recs = <<>> THEN "no_data" ELSE "save"

\* What main does with the value scrape_top_n returned, `printed` being what
\* scrape_top_n itself printed.
ScrapeReturns(recs, printed) ==
    /\ records' = recs
    /\ IF CycleBranch(recs) = "no_data"
         THEN /\ log' = log \o printed \o <<"no_data">>
              /\ pc' = "wait"
         ELSE /\ log' = log \o printed
              /\ pc' = "save"
    /\ UNCHANGED <<exc, last>>

\* scrape_top_n: the readiness wait times out; screenshot, notice, return []
ScrapeTimeout ==
    /\ pc = "scrape" /\ cycle < MaxCycles
    /\ cycle' = cycle + 1
    /\ ScrapeReturns(<<>>, <<"timeout">>)
    /\ UNCHANGED <<driver, browser, quits, file, clock, args, notMain>>

\* scrape_top_n: the table is ready; records of the first n rows
ScrapeRows ==
    /\ pc = "scrape" /\ cycle < MaxCycles
    /\ cycle' = cycle + 1
    /\ \E page \in Pages :
        ScrapeReturns(RowRecords(page, 1, args.topn), RowWarnings(page, 1, args.topn))
    /\ UNCHANGED <<driver, browser, quits, file, clock, args, notMain>>

\* scrape_top_n raises: driver.refresh / execute_script / find_elements, or
\* save_screenshot inside the timeout handler, report a WebDriverException;
\* or the user interrupts the wait.
ScrapeRaises ==
    /\ pc = "scrape" /\ cycle < MaxCycles
    /\ cycle' = cycle + 1
    /\ \E kind \in {"WebDriverException", "KeyboardInterrupt"} : Raise("scrape", kind)
    /\ UNCHANGED <<driver, browser, quits, file, records, log, clock, args, notMain>>

\* save_to_csv(records, args.output)
Save ==
    /\ pc = "save"
    /\ file' = save_to_csv(records, file, clock)
    /\ pc' = "views"
    /\ UNCHANGED <<driver, browser, quits, exc, last, records, log, cycle, clock, args, notMain>>

SaveRaises ==
    /\ pc = "save"
    /\ \E kind \in {"OSError", "KeyboardInterrupt"} : Raise("save", kind)
    /\ UNCHANGED <<driver, browser, quits, file, records, log, cycle, clock, args, notMain>>

\* df = pd.DataFrame(records) and the prints of the configured views
ViewTags ==
    <<"snapshot">>
    \o (IF Truthy(args.min_price) \/ Truthy(args.max_price) THEN <<"price_filter">> ELSE <<>>)
    \o (IF args.show_gainers # 0 THEN <<"gainers">> ELSE <<>>)
    \o (IF args.show_losers # 0 THEN <<"losers">> ELSE <<>>)

Views ==
    /\ pc = "views"
    /\ log' = log \o ViewTags
    /\ pc' = "wait"
    /\ UNCHANGED <<driver, browser, quits, exc, last, file, records, cycle, clock, args, notMain>>

ViewsRaises ==
    /\ pc = "views"
    /\ \E kind \in {"Exception", "KeyboardInterrupt"} : Raise("views", kind)
    /\ UNCHANGED <<driver, browser, quits, file, records, log, cycle, clock, args, notMain>>

\* except Exception as e: print("Error during scrape:", e)
ExceptCycle ==
    /\ pc = "except_cycle"
    /\ log' = Append(log, "error_during_scrape")
    /\ exc' = None
    /\ pc' = "wait"
    /\ UNCHANGED <<driver, browser, quits, last, file, records, cycle, clock, args, notMain>>

\* print("Waiting ... seconds before next scrape")
WaitPrint ==
    /\ pc = "wait"
    /\ log' = Append(log, "waiting")
    /\ pc' = "sleep"
    /\ UNCHANGED <<driver, browser, quits, exc, last, file, records, cycle, clock, args, notMain>>

\* the interrupt arrives between the cycle's try and the sleep's try
WaitInterrupted ==
    /\ pc = "wait"
    /\ Raise("wait", "KeyboardInterrupt")
    /\ UNCHANGED <<driver, browser, quits, file, records, log, cycle, clock, args, notMain>>

\* time.sleep(args.interval) returns
Sleep ==
    /\ pc = "sleep"
    /\ clock' = clock + 1
    /\ pc' = "scrape"
    /\ UNCHANGED <<driver, browser, quits, exc, last, file, records, log, cycle, args, notMain>>

\* time.sleep(args.interval) is interrupted
SleepInterrupted ==
    /\ pc = "sleep"
    /\ Raise("sleep", "KeyboardInterrupt")
    /\ UNCHANGED <<driver, browser, quits, file, records, log, cycle, clock, args, notMain>>

\* except KeyboardInterrupt: print("Auto-tracking stopped by user."); break
ExceptSleep ==
    /\ pc = "except_sleep"
    /\ log' = Append(log, "stopped_by_user")
    /\ exc' = None
    /\ pc' = "finally"
    /\ UNCHANGED <<driver, browser, quits, last, file, records, cycle, clock, args, notMain>>

\* except WebDriverException as e: print("WebDriver error:", e)
ExceptOuter ==
    /\ pc = "except_outer"
    /\ log' = Append(log, "webdriver_error")
    /\ exc' = None
    /\ pc' = "finally"
    /\ UNCHANGED <<driver, browser, quits, last, file, records, cycle, clock, args, notMain>>

\* a finally block that forgets driver.quit()
FinallySkipsQuit ==
    /\ pc = "finally"
    /\ pc' = "done"
    /\ UNCHANGED <<driver, browser, quits, exc, last, file, records, log, cycle, clock, args, notMain>>

\* finally: if driver: driver.quit(); print("Browser closed.")
\* An exception still in flight leaves main afterwards.
Finally ==
    /\ pc = "finally"
    /\ IF driver # None
         THEN /\ quits' = quits + 1
              /\ browser' = "quit"
              /\ log' = Append(log, "browser_closed")
         ELSE UNCHANGED <<quits, browser, log>>
    /\ pc' = "done"
    /\ UNCHANGED <<driver, exc, last, file, records, cycle, clock, args, notMain>>


NoRaise == [at |-> None, kind |-> None]

IdleCsv == calls = <<>> /\ external = FALSE
IdleFilter == df = <<>> /\ top_k = 0 /\ view = [kind |-> None, rows |-> <<>>]
IdleMoney == text = <<>> /\ result = "pending"

Init ==
    /\ pc = "start"
    /\ driver = None
    /\ browser = "absent"
    /\ quits = 0
    /\ exc = None
    /\ last = NoRaise
    /\ file = NoFile
    /\ records = <<>>
    /\ log = <<>>
    /\ cycle = 0
    /\ clock = 0
    /\ args \in Args
    /\ IdleCsv /\ IdleFilter /\ IdleMoney

Next ==
    \/ BuildDriverOk \/ BuildDriverFails
    \/ ScrapeTimeout \/ ScrapeRows \/ ScrapeRaises
    \/ Save \/ SaveRaises
    \/ Views \/ ViewsRaises
    \/ ExceptCycle
    \/ WaitPrint \/ WaitInterrupted
    \/ Sleep \/ SleepInterrupted
    \/ ExceptSleep \/ ExceptOuter
    \/ Finally

Spec == Init /\ [][Next]_vars

-----------------------------------------------------------------------------
(* Properties of main *)

CycleBody == {"scrape", "save", "views"}
Closing == {"except_outer", "except_sleep", "finally", "done"}

\* C1: once main holds the driver, driver.quit() is called exactly once on
\* every exit path: never twice, never zero times when main is left, the
\* browser is gone afterwards, and nothing of the loop runs after the quit.
C1_ReleasedExactlyOnce ==
    /\ quits <= 1
    /\ quits = 1 => (driver # None /\ browser = "quit" /\ pc = "done")
    /\ (pc = "done" /\ driver # None) => quits = 1

\* main was left by an interrupt that escaped a cycle, after one quit
C1_Witness ==
    /\ pc = "done" /\ quits = 1
    /\ last.at \in CycleBody /\ exc = "KeyboardInterrupt"

\* C2: when build_driver fails at any of its steps, the release step runs,
\* releases whatever was acquired (no browser is left running) and no poll
\* cycle was executed.
C2_FailedStartReleasesAll ==
    (pc = "done" /\ last.at = "build") => (browser # "running" /\ cycle = 0)

\* C3: an exception (a subclass of Exception) raised in the cycle body goes
\* to the cycle's handler; the handler does not start the cycle again but
\* goes on to the wait, the sleep and from there to the next extraction.
C3_CycleErrorsContained ==
    [][/\ (pc \in CycleBody /\ exc' # None /\ IsSubclass(exc', "Exception"))
            => pc' = "except_cycle"
       /\ pc = "except_cycle"
            => (pc' = "wait" /\ exc' = None /\ cycle' = cycle /\ quits' = quits)
       /\ (pc = "wait" /\ exc' = None) => pc' = "sleep"
       /\ (pc = "sleep" /\ exc' = None) => (pc' = "scrape" /\ quits' = 0)]_vars

\* an OSError of the persistence step was contained and the next cycle is due
C3_Witness ==
    /\ pc = "scrape" /\ cycle = 1 /\ exc = None
    /\ last = [at |-> "save", kind |-> "OSError"]

\* C4 as stated: a WebDriverException raised anywhere, a poll cycle
\* included, ends the loop: control is in the closing part of main.
C4_WebDriverErrorEndsLoop ==
    last.kind = "WebDriverException" => pc \in Closing

\* C4 as amended: a WebDriverException raised by build_driver is caught by
\* the outer handler, no cycle starts, the release step runs and main
\* returns without an error; one raised in a poll cycle goes to the cycle's
\* handler and the loop goes on to the wait.
C4_WebDriverErrorFatalOnlyAtStart ==
    /\ (last = [at |-> "build", kind |-> "WebDriverException"])
          => /\ pc \in {"except_outer", "finally", "done"}
             /\ cycle = 0
             /\ pc \in {"finally", "done"} => exc = None
    /\ (last.kind = "WebDriverException" /\ last.at \in CycleBody)
          => /\ pc \notin Closing
             /\ quits = 0
             /\ exc # None => pc = "except_cycle"

\* a WebDriverException of a poll cycle was contained and the loop sleeps
C4_Witness ==
    /\ pc = "sleep" /\ exc = None
    /\ last = [at |-> "scrape", kind |-> "WebDriverException"]

\* C5: a KeyboardInterrupt during the sleep ends the loop at once: nothing
\* of a cycle runs any more, the driver is quit exactly once and main
\* returns with no exception in flight.
C5_InterruptedSleepStopsCleanly ==
    (last = [at |-> "sleep", kind |-> "KeyboardInterrupt"])
        => /\ pc \in {"except_sleep", "finally", "done"}
           /\ pc \in {"finally", "done"} => exc = None
           /\ quits = (IF pc = "done" THEN 1 ELSE 0)
           /\ pc = "done" => browser = "quit"

C5_Witness ==
    /\ pc = "done" /\ quits = 1 /\ exc = None
    /\ last = [at |-> "sleep", kind |-> "KeyboardInterrupt"]

\* The step is a scrape_top_n that timed out and returned [].
TimedOutCycle ==
    /\ pc = "scrape" /\ exc' = None
    /\ Len(log') > Len(log) /\ log'[Len(log) + 1] = "timeout"

\* C6: a cycle whose extraction times out leaves the file as it was, prints
\* the degraded-cycle notice and goes to the wait; the wait goes to the
\* sleep and the sleep, when it returns, to the next extraction.
C6_TimeoutCycleDegrades ==
    [][/\ TimedOutCycle
            => /\ file' = file
               /\ log' = log \o <<"timeout", "no_data">>
               /\ records' = <<>>
               /\ pc' = "wait"
               /\ quits' = quits
       /\ (pc = "wait" /\ exc' = None) => (pc' = "sleep" /\ file' = file)
       /\ (pc = "sleep" /\ exc' = None)
            => (pc' = "scrape" /\ file' = file /\ quits' = 0)]_vars

\* a second extraction was started after a first cycle that timed out
C6_Witness ==
    /\ cycle = 2 /\ Len(log) >= 3
    /\ log[2] = "timeout" /\ log[3] = "no_data"
    /\ file = NoFile

\* C10: a KeyboardInterrupt raised while the cycle body runs ends main like
\* one raised in the sleep: driver quit, no exception leaves main.
C10_InterruptedCycleStopsCleanly ==
    (pc = "done" /\ last.kind = "KeyboardInterrupt" /\ last.at \in CycleBody)
        => (quits = 1 /\ exc = None)

-----------------------------------------------------------------------------
(* SpecCsv: sequences of save_to_csv calls on one path *)

Batches == SeqsUpTo({[rank |-> r] : r \in 1..2}, MaxRows)

InitCsv ==
    /\ pc = "csv"
    /\ driver = None /\ browser = "absent" /\ quits = 0
    /\ exc = None /\ last = NoRaise
    /\ file = NoFile
    /\ records = <<>>
    /\ log = <<>> /\ cycle = 0 /\ clock = 0
    /\ args \in {a \in Args : a.topn = DefaultTopN /\ a.show_gainers = DefaultTopK
                                /\ a.max_price = Unset}
    /\ IdleCsv /\ IdleFilter /\ IdleMoney

notCsv == <<pc, driver, browser, quits, exc, last, log, cycle, args,
            df, top_k, view, text, result>>

\* save_to_csv(batch, path) is called; time passes before the next call
CallSave ==
    /\ Len(calls) < MaxCalls
    /\ \E batch \in Batches :
        /\ records' = batch
        /\ file' = save_to_csv(batch, file, clock)
        /\ calls' = Append(calls, [recs |-> batch, now |-> clock])
    /\ clock' = clock + 1
    /\ UNCHANGED <<external, notCsv>>

\* another process creates the path, empty, between two calls
ExternalCreate ==
    /\ ~file.exists
    /\ file' = [exists |-> TRUE, lines |-> <<>>]
    /\ external' = TRUE
    /\ UNCHANGED <<records, calls, clock, notCsv>>

\* another process removes the path between two calls
ExternalRemove ==
    /\ file.exists
    /\ file' = NoFile
    /\ external' = TRUE
    /\ UNCHANGED <<records, calls, clock, notCsv>>

NextCsv == CallSave \/ ExternalCreate \/ ExternalRemove

SpecCsv == InitCsv /\ [][NextCsv]_vars

RECURSIVE RowsOfCalls(_)
RowsOfCalls(cs) ==
    IF cs = <<>> THEN <<>>
    ELSE RowsOfCalls(SubSeq(cs, 1, Len(cs) - 1))
            \o [i \in 1..Len(cs[Len(cs)].recs) |->
                   [kind |-> "row", rank |-> cs[Len(cs)].recs[i].rank,
                    timestamp_utc |-> cs[Len(cs)].now]]

IsPrefix(a, b) == Len(a) <= Len(b) /\ SubSeq(b, 1, Len(a)) = a

HeaderCount(f) == Cardinality({i \in 1..Len(f.lines) : f.lines[i] = Header})

\* C7: with only save_to_csv writing a path that did not exist, the file is
\* the header, once and first, then the rows of the non-empty batches in
\* call order (no file while every batch was empty); every call appends,
\* an empty batch changes nothing, and every non-empty call writes the header
\* exactly when the path does not exist at that call.
C7_AppendOnlyHeaderOnce ==
    /\ [](~external =>
            IF RowsOfCalls(calls) = <<>> THEN file = NoFile
            ELSE /\ file.exists
                 /\ file.lines = <<Header>> \o RowsOfCalls(calls)
                 /\ HeaderCount(file) = 1)
    /\ [][calls' # calls =>
            LET b == calls'[Len(calls')] IN
            /\ IsPrefix(file.lines, file'.lines)
            /\ b.recs = <<>> => file' = file
            /\ b.recs # <<>> =>
                 /\ file'.exists
                 /\ Len(file'.lines) = Len(file.lines) + Len(b.recs)
                                         + (IF file.exists THEN 0 ELSE 1)
                 /\ (file'.lines[Len(file.lines) + 1] = Header) <=> ~file.exists]_vars

\* an empty batch, then two appends: the second one added rows only
C7_Witness ==
    /\ ~external /\ Len(calls) = 3
    /\ calls[1].recs = <<>> /\ calls[2].recs # <<>> /\ calls[3].recs # <<>>
    /\ HeaderCount(file) = 1
    /\ Len(file.lines) = 1 + Len(calls[2].recs) + Len(calls[3].recs)

-----------------------------------------------------------------------------
(* SpecFilter: filter_top_gainers and filter_top_losers *)

\* change_24h of a record: <<>> when parse_percent gave None (NaN in the
\* frame), <<x>> otherwise.
Changes == {Unset, <<-1>>, <<2>>}

\* Snapshots in display order: the i-th record has rank i.
Snapshots ==
    {[i \in 1..Len(c) |-> [rank |-> i, change_24h |-> c[i]]] :
        c \in SeqsUpTo(Changes, MaxSnap)}

IsNull(r) == r.change_24h = Unset

\* a may stand before b in the sorted frame: NaN goes last whatever the
\* direction (na_position="last"), the others by value.
InOrder(a, b, ascending) ==
    IF IsNull(b) THEN TRUE
    ELSE IF IsNull(a) THEN FALSE
    ELSE IF ascending THEN a.change_24h[1] <= b.change_24h[1]
    ELSE a.change_24h[1] >= b.change_24h[1]

Orderings(n) == {p \in [1..n -> 1..n] : \A i, j \in 1..n : i # j => p[i] # p[j]}

\* df.sort_values(by="change_24h", ascending=...): the default sort kind
\* promises nothing about the order of equal keys, so every arrangement of
\* the rows that is in order is a possible result.
sort_values(frame, ascending) ==
    {[i \in 1..Len(frame) |-> frame[p[i]]] : p \in
        {q \in Orderings(Len(frame)) :
            \A i \in 1..(Len(frame) - 1) :
                InOrder(frame[q[i]], frame[q[i + 1]], ascending)}}

\* head taking one row too many
head_one_more(frame, k) == SubSeq(frame, 1, Min(k + 1, Len(frame)))

\* DataFrame.head(k) for k >= 0
head(frame, k) == SubSeq(frame, 1, Min(k, Len(frame)))

InitFilter ==
    /\ pc = "filter"
    /\ driver = None /\ browser = "absent" /\ quits = 0
    /\ exc = None /\ last = NoRaise
    /\ file = NoFile /\ records = <<>>
    /\ log = <<>> /\ cycle = 0 /\ clock = 0
    /\ args \in {a \in Args : a.topn = DefaultTopN /\ a.show_gainers = DefaultTopK
                                /\ a.max_price = Unset}
    /\ IdleCsv /\ IdleMoney
    /\ df \in Snapshots
    /\ top_k \in 0..MaxK
    /\ view = [kind |-> None, rows |-> <<>>]

notFilter == <<pc, driver, browser, quits, exc, last, file, records, log, cycle,
               clock, args, calls, external, text, result>>

\* filter_top_gainers(df, top_k)
filter_top_gainers ==
    /\ \E sorted \in sort_values(df, FALSE) :
        view' = [kind |-> "gainers", rows |-> head(sorted, top_k)]
    /\ UNCHANGED <<df, top_k, notFilter>>

\* filter_top_losers(df, top_k)
filter_top_losers ==
    /\ \E sorted \in sort_values(df, TRUE) :
        view' = [kind |-> "losers", rows |-> head(sorted, top_k)]
    /\ UNCHANGED <<df, top_k, notFilter>>

NextFilter == filter_top_gainers \/ filter_top_losers

SpecFilter == InitFilter /\ [][NextFilter]_vars

NonNull(frame) == {i \in 1..Len(frame) : ~IsNull(frame[i])}

Descending(rows) ==
    \A i, j \in NonNull(rows) : i < j => rows[i].change_24h[1] >= rows[j].change_24h[1]

Ascending(rows) ==
    \A i, j \in NonNull(rows) : i < j => rows[i].change_24h[1] <= rows[j].change_24h[1]

NullsLast(rows) ==
    \A i, j \in 1..Len(rows) : (IsNull(rows[i]) /\ ~IsNull(rows[j])) => j < i

\* C8 as stated: the view has min(k, number of non-null records) rows and
\* is sorted, descending for the gainers and ascending for the losers.
C8_TopKOfNonNull ==
    view.kind # None =>
        /\ Len(view.rows) = Min(top_k, Cardinality(NonNull(df)))
        /\ view.kind = "gainers" => Descending(view.rows)
        /\ view.kind = "losers" => Ascending(view.rows)

\* C8 as amended: the view has min(k, number of records) rows, all rows of
\* the snapshot; the non-null ones come first, sorted descending (gainers)
\* or ascending (losers), so min(k, number of non-null records) of them,
\* and the null-change records fill what is left.
C8_TopKNullsLast ==
    view.kind # None =>
        /\ Len(view.rows) = Min(top_k, Len(df))
        /\ \A i \in 1..Len(view.rows) : view.rows[i] \in {df[j] : j \in 1..Len(df)}
        /\ \A i, j \in 1..Len(view.rows) : i # j => view.rows[i] # view.rows[j]
        /\ NullsLast(view.rows)
        /\ Cardinality(NonNull(view.rows)) = Min(top_k, Cardinality(NonNull(df)))
        /\ view.kind = "gainers" => Descending(view.rows)
        /\ view.kind = "losers" => Ascending(view.rows)

\* top 2 gainers of two records, one of them without a change
C8_Witness ==
    /\ view.kind = "gainers" /\ top_k = 2
    /\ Len(df) = 2 /\ Cardinality(NonNull(df)) = 1
    /\ Len(view.rows) = 2 /\ IsNull(view.rows[2])

-----------------------------------------------------------------------------
(* SpecMoney: parse_money *)

\* Strings are sequences of characters; Dash is the em-dash placeholder.
Dash == "EM DASH"
Digits == {"0", "1", "2", "3", "4", "5", "6", "7", "8", "9"}
Whitespace == {" "}

DigitVal(c) ==
    CASE c = "0" -> 0 [] c = "1" -> 1 [] c = "2" -> 2 [] c = "3" -> 3
      [] c = "4" -> 4 [] c = "5" -> 5 [] c = "6" -> 6 [] c = "7" -> 7
      [] c = "8" -> 8 [] c = "9" -> 9

\* str.replace(ch, "")
Remove(str, ch) == SelectSeq(str, LAMBDA c : c # ch)

RECURSIVE LStrip(_)
LStrip(str) ==
    IF str # <<>> /\ str[1] \in Whitespace THEN LStrip(Tail(str)) ELSE str

RECURSIVE RStrip(_)
RStrip(str) ==
    IF str # <<>> /\ str[Len(str)] \in Whitespace
        THEN RStrip(SubSeq(str, 1, Len(str) - 1)) ELSE str

\* str.strip()
Strip(str) == RStrip(LStrip(str))

\* str.endswith(ch)
EndsWith(str, ch) == str # <<>> /\ str[Len(str)] = ch

\* str[:-1]
DropLast(str) == SubSeq(str, 1, Len(str) - 1)

\* A float, exactly: m * 10^e with m not a multiple of ten (0 is 0 * 10^0).
RECURSIVE Norm(_, _)
Norm(m, e) ==
    IF m = 0 THEN [tag |-> "float", m |-> 0, e |-> 0]
    ELSE IF m % 10 = 0 THEN Norm(m \div 10, e + 1)
    ELSE [tag |-> "float", m |-> m, e |-> e]

NoneResult == [tag |-> "None"]
Raised(kind) == [tag |-> "raise", kind |-> kind]

\* number of leading decimal digits of str
RECURSIVE LeadingDigits(_)
LeadingDigits(str) ==
    IF str = <<>> \/ str[1] \notin Digits THEN 0 ELSE 1 + LeadingDigits(Tail(str))

\* value of a string of decimal digits
RECURSIVE DigitsValue(_)
DigitsValue(str) ==
    IF str = <<>> THEN 0
    ELSE 10 * DigitsValue(DropLast(str)) + DigitVal(str[Len(str)])

\* float(str) on the characters of the model: surrounding whitespace is
\* ignored, then an optional sign, digits with at most one decimal point
\* and at least one digit, and nothing else; anything else is a ValueError.
float(str) ==
    LET t        == Strip(str)
        signed   == t # <<>> /\ t[1] \in {"+", "-"}
        u        == IF signed THEN Tail(t) ELSE t
        ni       == LeadingDigits(u)
        afterInt == SubSeq(u, ni + 1, Len(u))
        hasDot   == afterInt # <<>> /\ afterInt[1] = "."
        fraction == IF hasDot THEN Tail(afterInt) ELSE afterInt
        nf       == IF hasDot THEN LeadingDigits(fraction) ELSE 0
        rest     == SubSeq(fraction, nf + 1, Len(fraction))
        mantissa == DigitsValue(SubSeq(u, 1, ni) \o SubSeq(fraction, 1, nf))
    IN IF ni + nf = 0 \/ rest # <<>> THEN Raised("ValueError")
       ELSE Norm(IF signed /\ t[1] = "-" THEN 0 - mantissa ELSE mantissa, 0 - nf)

\* The multipliers, as powers of ten: 1_000, 1_000_000, 1_000_000_000,
\* 1_000_000_000_000.
ExpK == 3
ExpM == 6
ExpB == 9
ExpT == 12

\* float * multiplier
Times(x, exp10) == Norm(x.m, x.e + exp10)

\* `except ValueError:` of parse_money
MoneyHandlerClass == "ValueError"

\* the suffix taken off by a chain that ignores case
SuffixOfAnyCase(str) ==
    IF EndsWith(str, "K") \/ EndsWith(str, "k") THEN "K"
    ELSE IF EndsWith(str, "M") THEN "M"
    ELSE IF EndsWith(str, "B") THEN "B"
    ELSE IF EndsWith(str, "T") THEN "T"
    ELSE ""

\* the if / elif chain over text.endswith: which suffix, if any, is taken off
SuffixOf(str) ==
    IF EndsWith(str, "K") THEN "K"
    ELSE IF EndsWith(str, "M") THEN "M"
    ELSE IF EndsWith(str, "B") THEN "B"
    ELSE IF EndsWith(str, "T") THEN "T"
    ELSE ""

MultiplierOf(suffix) ==
    CASE suffix = "K" -> ExpK
      [] suffix = "M" -> ExpM
      [] suffix = "B" -> ExpB
      [] suffix = "T" -> ExpT
      [] OTHER        -> 0

parse_money(str) ==
    IF str = <<>> THEN NoneResult
    ELSE LET cleaned == Strip(Remove(Remove(Remove(str, ","), "$"), Dash))
             suffix  == SuffixOf(cleaned)
             body    == IF suffix # "" THEN DropLast(cleaned) ELSE cleaned
             parsed  == float(body)
         IN IF parsed.tag = "raise"
              THEN IF IsSubclass(parsed.kind, MoneyHandlerClass)
                     THEN NoneResult
                     ELSE parsed
              ELSE Times(parsed, MultiplierOf(suffix))

Alphabet == {"$", ",", Dash, "K", "M", "B", "T", "k", "1", "2", ".", "-", " "}

\* The documented examples: "$64,000", "$1.2B", "$0.5K".
Examples ==
    {<<"$", "6", "4", ",", "0", "0", "0">>,
     <<"$", "1", ".", "2", "B">>,
     <<"$", "0", ".", "5", "K">>}

Pending == [tag |-> "pending"]

InitMoney ==
    /\ pc = "money"
    /\ driver = None /\ browser = "absent" /\ quits = 0
    /\ exc = None /\ last = NoRaise
    /\ file = NoFile /\ records = <<>>
    /\ log = <<>> /\ cycle = 0 /\ clock = 0
    /\ args \in {a \in Args : a.topn = DefaultTopN /\ a.show_gainers = DefaultTopK
                                /\ a.max_price = Unset}
    /\ IdleCsv /\ IdleFilter
    /\ text \in SeqsUpTo(Alphabet, MaxLen) \cup Examples
    /\ result = Pending

notMoney == <<pc, driver, browser, quits, exc, last, file, records, log, cycle,
              clock, args, calls, external, df, top_k, view>>

\* result = parse_money(text)
CallParseMoney ==
    /\ result = Pending
    /\ result' = parse_money(text)
    /\ UNCHANGED <<text, notMoney>>

NextMoney == CallParseMoney

SpecMoney == InitMoney /\ [][NextMoney]_vars

\* What is left of the text once "$", "," and the placeholder are removed.
Cleaned(str) == Strip(Remove(Remove(Remove(str, "$"), Dash), ","))

Suffixes == {"K", "M", "B", "T"}

AllDigits(str) == \A i \in 1..Len(str) : str[i] \in Digits

\* The ways to read str as a numeral: sign, integer digits, and after a
\* decimal point the fraction digits, with a digit somewhere.
Readings(str) ==
    LET t == Strip(str) IN
    {r \in [neg : BOOLEAN, ip : 0..Len(t), dot : BOOLEAN] :
        LET s0 == IF r.neg THEN 1 ELSE 0
            d0 == IF r.dot THEN 1 ELSE 0
            fl == Len(t) - s0 - r.ip - d0
        IN /\ fl >= 0
           /\ r.neg => t[1] = "-"
           /\ AllDigits(SubSeq(t, s0 + 1, s0 + r.ip))
           /\ r.dot => t[s0 + r.ip + 1] = "."
           /\ ~r.dot => fl = 0
           /\ AllDigits(SubSeq(t, s0 + r.ip + d0 + 1, Len(t)))
           /\ r.ip + fl >= 1}

ReadingValue(str, r, exp10) ==
    LET t  == Strip(str)
        s0 == IF r.neg THEN 1 ELSE 0
        d0 == IF r.dot THEN 1 ELSE 0
        ds == SubSeq(t, s0 + 1, s0 + r.ip) \o SubSeq(t, s0 + r.ip + d0 + 1, Len(t))
        v  == DigitsValue(ds)
    IN Norm(IF r.neg THEN 0 - v ELSE v, exp10 - Len(ds) + r.ip)

\* The values the claim allows for str: numeral x factor for every way of
\* splitting the cleaned text into a numeral and at most one suffix.
Allowed(str) ==
    LET c == Cleaned(str) IN
    {ReadingValue(c, r, 0) : r \in Readings(c)}
    \cup UNION {{ReadingValue(DropLast(c), r, MultiplierOf(s)) : r \in Readings(DropLast(c))} :
                  s \in {x \in Suffixes : EndsWith(c, x)}}

\* C9: parse_money never raises; it gives numeral x factor when the text,
\* without "$", "," and the placeholder, is a numeral followed by at most
\* one suffix of K, M, B, T, and None in every other case: empty text, the
\* placeholder alone, two decimal points, a lowercase suffix, two suffixes.
C9_ParseMoney ==
    result # Pending =>
        /\ result.tag # "raise"
        /\ text = <<>> => result = NoneResult
        /\ Cleaned(text) = <<>> => result = NoneResult
        /\ IF Allowed(text) = {} THEN result = NoneResult
           ELSE Allowed(text) = {result}
        /\ text = <<"$", "6", "4", ",", "0", "0", "0">>
              => result = [tag |-> "float", m |-> 64, e |-> 3]
        /\ text = <<"$", "1", ".", "2", "B">>
              => result = [tag |-> "float", m |-> 12, e |-> 8]
        /\ text = <<"$", "0", ".", "5", "K">>
              => result = [tag |-> "float", m |-> 5, e |-> 2]
        /\ text = <<Dash>> => result = NoneResult
        /\ text \in {<<"1", "k">>, <<"1", "K", "M">>, <<"1", ".", ".">>, <<".", "1", ".">>}
              => result = NoneResult

\* a text with two suffixes was parsed to None
C9_Witness ==
    /\ text = <<"1", "K", "M">>
    /\ result = NoneResult

====
